---- MODULE Spec2Model ----
(***************************************************************************)
(* Model of oda_module.py: the ODA sub-regional forecasting pipeline.      *)
(*                                                                         *)
(*   load_worldbank_style          CSV -> long table (Country, Year, ODA)  *)
(*   assign_subregion              country name -> group                   *)
(*   prepare_subregion_timeseries  long table -> Year x Subregion pivot    *)
(*   fit_and_forecast              one series -> train/test/preds/metrics/ *)
(*                                 forecast                                *)
(*   build_all_subregion_models    the loop over the pivot's columns       *)
(*                                                                         *)
(* The numerical libraries are outside the repository.  What the code sees *)
(* of them is modelled: a statsmodels fit or forecast either raises or     *)
(* yields finite numbers (an input of the call, fit_ok); sklearn's metrics *)
(* raise ValueError on an empty array or on an array holding NaN; setting  *)
(* DatetimeIndex.freq raises ValueError when the index does not conform.   *)
(* A finite number produced by a fitted model is the token Num, a missing  *)
(* value the token NaN.                                                    *)
(***************************************************************************)
EXTENDS Integers, Sequences, FiniteSets, TLC

VARIABLES
    pc,                 \* position of the operation under study
    country_name,       \* assign_subregion: the country_name argument
    subregion_map,      \* the subregion_map argument (groups in declaration order)
    assigned,           \* assign_subregion: the value returned
    df_long,            \* prepare_subregion_timeseries: the df_long argument
    pivot,              \* prepare_subregion_timeseries: the frame of the finished call
    series,             \* fit_and_forecast: the series argument
    eval_years,         \* fit_and_forecast: the eval_years argument
    forecast_end_year,  \* fit_and_forecast: the forecast_end_year argument
    fit_ok,             \* which statsmodels fits/forecasts succeed in the call
    engine,             \* fit_and_forecast: the frame of the finished call
    csv_path,           \* load_worldbank_style: the file, as its two readings
    loaded,             \* load_worldbank_style: the frame of the finished call
    sub_i,              \* build_all_subregion_models: position of the loop
    models,             \* build_all_subregion_models: the local dict models
    built               \* build_all_subregion_models: the value returned

assignVars == <<country_name, assigned>>
aggVars == <<df_long, pivot>>
fitVars == <<series, eval_years, forecast_end_year, fit_ok, engine>>
loadVars == <<csv_path, loaded>>
buildVars == <<sub_i, models, built>>
vars == <<pc, subregion_map, assignVars, aggVars, fitVars, loadVars, buildVars>>

\* ---------------------------------------------------------------- bounds
MaxNameLen == 3     \* longest country name, in characters
MaxMembers == 2     \* most aliases a group declares
MaxRecords == 2     \* most rows of a long table
MaxCsvCols == 3     \* most columns of a long-format CSV
MaxCsvRows == 1     \* most data rows of a CSV
MaxExtraCols == 1   \* year columns a wide CSV may have beyond the threshold
MaxLen == 6         \* number of calendar years a series may cover
MaxEval == 5        \* largest requested eval_years
MaxHorizon == 2     \* forecast_end_year reaches this far past the last year
BaseYear == 2015    \* first calendar year of the universe

\* ---------------------------------------------------------------- helpers
NaN == "NaN"
Num == "Num"
None == "None"

\* A missing country name (what pd.isna accepts): no string of characters.
NaNName == <<NaN>>

\* A country value that is a number (a Country column read_csv parsed as
\* numeric): no string of characters either, and not missing.
NumberName(v) == <<"number", ToString(v)>>
IsNumberName(name) == Len(name) = 2 /\ name[1] = "number"

\* The exception of a call, where its returned value would be.
AttributeError == "AttributeError"

\* A cell of a table: a number, a missing value, or text.
Number(v) == [kind |-> "number", value |-> v]
NaNCell == [kind |-> "nan", value |-> 0]

Max(a, b) == IF a >= b THEN a ELSE b
Min(a, b) == IF a <= b THEN a ELSE b

SetMax(S) == CHOOSE x \in S : \A y \in S : y <= x
SetMin(S) == CHOOSE x \in S : \A y \in S : x <= y

\* Python's normalisation of a slice bound i for a sequence of length n.
PyBound(i, n) == IF i < 0 THEN Max(i + n, 0) ELSE Min(i, n)

\* s.iloc[:k]
ILocTo(s, k) == SubSeq(s, 1, PyBound(k, Len(s)))

\* s.iloc[k:] with the sign of k dropped (ser.iloc[eval_years:]).
ILocFrom_SignDropped(s, k) == SubSeq(s, PyBound(0 - k, Len(s)) + 1, Len(s))

\* s.iloc[k:]
ILocFrom(s, k) == SubSeq(s, PyBound(k, Len(s)) + 1, Len(s))

\* range(a, b) taken with its end included.
PyRange_EndIncluded(a, b) == [i \in 1..Max(0, b - a + 1) |-> a + i - 1]

\* list(range(a, b))
PyRange(a, b) == [i \in 1..Max(0, b - a) |-> a + i - 1]

\* -------------------------------------------------- load_worldbank_style
\* A CSV file is what the two pd.read_csv calls make of it: its reading with
\* skiprows=4 and its plain reading, each a table (header row, data rows of
\* cells aligned with the header) or a read error (raised by read_csv).
\* A cell is a number, a missing value or text; Text carries its characters.
Text(s) == [kind |-> "text", value |-> s]

ReadError == [ok |-> FALSE, columns |-> <<>>, rows |-> <<>>]
Table(columns, rows) == [ok |-> TRUE, columns |-> columns, rows |-> rows]

MinYearCols == 10

\* The calendar years a header of the model can name.
CsvYears == BaseYear..(BaseYear + MinYearCols + MaxExtraCols - 1)

\* The headers of the model that int() parses: the decimal years.
IntHeaders == {ToString(y) : y \in CsvYears}

\* A header of digits that int() refuses: str.isdigit() holds of the
\* superscript two, int("²") raises ValueError.
SuperscriptTwo == "²"

\* The headers of the model for which str(c).isdigit() holds.
DigitHeaders == IntHeaders \cup {SuperscriptTwo}

isdigit(c) == c \in DigitHeaders

\* int(c) succeeds.
ParsesAsInt(c) == c \in IntHeaders

\* int(c) for a header it parses, as astype(int) converts the melted Year
\* column.
IntOfHeader == [c \in IntHeaders |-> CHOOSE y \in CsvYears : ToString(y) = c]

\* c.lower() for the headers of the model.
LowerOfHeader(c) ==
    CASE c = "Country Name" -> "country name"
      [] c = "Country Code" -> "country code"
      [] c = "Indicator Name" -> "indicator name"
      [] c = "COUNTRY" -> "country"
      [] c = "Year" -> "year"
      [] c = "YEAR" -> "year"
      [] c = "ODA" -> "oda"
      [] c = "Official value" -> "official value"
      [] c = "Amount" -> "amount"
      [] c = "Region" -> "region"
      [] c = "Data Source" -> "data source"
      [] OTHER -> c

\* k in s, for a keyword k of the loader and a lower-cased header s of the model.
Occurrences ==
    { <<"country", "country name">>, <<"country", "country code">>,
      <<"country", "country">>, <<"oda", "oda">>,
      <<"official", "official value">>, <<"value", "official value">>,
      <<"amount", "amount">> }

Contains(k, s) == <<k, s>> \in Occurrences

ValueKeywords == {"oda", "value", "amount", "official"}

\* next((c for c in columns if c in wanted), None), as a position (0 for
\* None); wanted is the set of headers that pass the generator's test.
FirstColumn(columns, wanted) ==
    LET hits == {i \in 1..Len(columns) : columns[i] \in wanted}
    IN  IF hits = {} THEN 0 ELSE SetMin(hits)

\* len(year_cols) >= 10 (line 61).
WideAccepted(year_cols) == Len(year_cols) >= MinYearCols

\* The country name a cell of the country column holds.
NameOf(cell) ==
    IF cell.kind = "text" THEN cell.value
    ELSE IF cell.kind = "number" THEN NumberName(cell.value)
    ELSE NaNName

\* dropna(subset=["ODA"])
dropna_ODA(rows) == SelectSeq(rows, LAMBDA r : r.ODA.kind # "nan")

NotLoaded ==
    [status |-> "not_called", error |-> None, line |-> 0, shape |-> None,
     columns |-> {}, rows |-> <<>>]

LoadReturned(shape, columns, rows) ==
    [NotLoaded EXCEPT !.status = "returned", !.shape = shape,
                      !.columns = columns, !.rows = rows]

LoadRaised(error, line) ==
    [NotLoaded EXCEPT !.status = "raised", !.error = error, !.line = line]

\* Lines 62-73: melt the year columns of the skiprows=4 reading.  A row of the
\* result holds Country (when the table has "Country Name"), Year and ODA; the
\* ISO3 column is carried in the column set only, nothing reads its cells.
\* Two lines can raise: melt (line 62) when the table already has a column
\* "ODA", the value_name, and astype(int) (line 72) when a row that dropna
\* kept has a Year int() refuses.
MeltWide(df, year_cols) ==
    LET name_at == FirstColumn(df.columns, {"Country Name"})
        pos(c) == FirstColumn(df.columns, {c})
        nr == Len(df.rows)
        melted == [k \in 1..(Len(year_cols) * nr) |->
                     LET c == year_cols[((k - 1) \div nr) + 1]
                         r == df.rows[((k - 1) % nr) + 1]
                     IN  [Country |-> IF name_at = 0 THEN NaNName ELSE NameOf(r[name_at]),
                          Year |-> c,
                          ODA |-> r[pos(c)]]]
        kept == dropna_ODA(melted)
    IN  IF pos("ODA") # 0 THEN LoadRaised("ValueError", 62)
        ELSE IF \E i \in 1..Len(kept) : ~ParsesAsInt(kept[i].Year)
        THEN LoadRaised("ValueError", 72)
        ELSE LoadReturned("wide",
                {"Year", "ODA"}
                  \cup (IF name_at = 0 THEN {} ELSE {"Country"})
                  \cup (IF pos("Country Code") = 0 THEN {} ELSE {"ISO3"}),
                [i \in 1..Len(kept) |-> [kept[i] EXCEPT !.Year = IntOfHeader[@]]])

\* Lines 58-75, the try block: the table it returns, or the exception that
\* "except Exception: pass" swallows, or neither when fewer than 10 year
\* columns were found (the block falls through).
WideAttempt(df) ==
    LET year_cols == SelectSeq(df.columns, isdigit)
    IN  IF ~df.ok THEN LoadRaised("ParserError", 59)
        ELSE IF WideAccepted(year_cols) THEN MeltWide(df, year_cols)
        ELSE NotLoaded

\* Lines 78-90: the plain reading as a long table.
LoadLong(df2) ==
    LET heads == {df2.columns[i] : i \in 1..Len(df2.columns)}
        country_col == FirstColumn(df2.columns,
                           {c \in heads : Contains("country", LowerOfHeader(c))})
        year_col == FirstColumn(df2.columns,
                        {c \in heads : LowerOfHeader(c) = "year"})
        value_col == FirstColumn(df2.columns,
                         {c \in heads : \E k \in ValueKeywords :
                                           Contains(k, LowerOfHeader(c))})
    IN  IF ~df2.ok THEN LoadRaised("ParserError", 78)
        ELSE IF country_col # 0 /\ year_col # 0 /\ value_col # 0
        THEN LET out == [i \in 1..Len(df2.rows) |->
                            [Country |-> NameOf(df2.rows[i][country_col]),
                             Year |-> df2.rows[i][year_col],
                             ODA |-> df2.rows[i][value_col]]]
                 kept == dropna_ODA(out)
             IN  IF \E i \in 1..Len(kept) : kept[i].Year.kind # "number"
                 THEN LoadRaised("ValueError", 87)
                 ELSE LoadReturned("long", {"Country", "Year", "ODA"},
                        [i \in 1..Len(kept) |-> [kept[i] EXCEPT !.Year = @.value]])
        ELSE LoadRaised("ValueError", 90)

\* The frame of a call of load_worldbank_style: status "returned" with the
\* table returned (its column names and rows), or "raised" with the exception
\* and the line that raised it.
load_worldbank_style(file) ==
    LET wide == WideAttempt(file.skip4)
    IN  IF wide.status = "returned" THEN wide ELSE LoadLong(file.plain)

\* ------------------------------------------------------ assign_subregion
\* A string is the sequence of its characters.
Chars == {"a", "b", "B", ".", ",", " "}

\* str.lower() on one character.
LowerChar(c) == IF c = "B" THEN "b" ELSE c

\* str.lower()
lower(s) == [i \in 1..Len(s) |-> LowerChar(s[i])]

RECURSIVE lstrip(_)
lstrip(s) == IF s # <<>> /\ Head(s) = " " THEN lstrip(Tail(s)) ELSE s

RECURSIVE rstrip(_)
rstrip(s) ==
    IF s # <<>> /\ s[Len(s)] = " " THEN rstrip(SubSeq(s, 1, Len(s) - 1)) ELSE s

\* str.strip()
strip(s) == rstrip(lstrip(s))

\* str.replace(ch, '')
remove(s, ch) == SelectSeq(s, LAMBDA c : c # ch)

\* .strip().lower().replace('.', '').replace(',', '')
normalize(s) == remove(remove(lower(strip(s)), "."), ",")

\* str.startswith
startswith(s, prefix) ==
    Len(prefix) <= Len(s) /\ SubSeq(s, 1, Len(prefix)) = prefix

\* The test of one member m against the normalized name cn (lines 106-111).
member_matches(cn, m) ==
    LET mm == normalize(m)
    IN  cn = mm \/ startswith(cn, mm) \/ startswith(mm, cn)

\* The inner loop: the members in declaration order, up to the first match.
RECURSIVE scan_members(_, _, _)
scan_members(cn, members, i) ==
    IF i > Len(members) THEN FALSE
    ELSE IF member_matches(cn, members[i]) THEN TRUE
    ELSE scan_members(cn, members, i + 1)

\* The outer loop taken from the last group to the first.
RECURSIVE scan_subregions_LastFirst(_, _, _)
scan_subregions_LastFirst(cn, map, g) ==
    LET k == Len(map) + 1 - g
    IN  IF g > Len(map) THEN None
        ELSE IF scan_members(cn, map[k].members, 1) THEN map[k].subregion
        ELSE scan_subregions_LastFirst(cn, map, g + 1)

\* The outer loop: the groups in declaration order, up to the first match.
RECURSIVE scan_subregions(_, _, _)
scan_subregions(cn, map, g) ==
    IF g > Len(map) THEN None
    ELSE IF scan_members(cn, map[g].members, 1) THEN map[g].subregion
    ELSE scan_subregions(cn, map, g + 1)

\* The value returned, or AttributeError: a number passes pd.isna and has no
\* strip method (line 103).
assign_subregion(name, map) ==
    IF name = NaNName THEN None
    ELSE IF IsNumberName(name) THEN AttributeError
    ELSE scan_subregions(normalize(name), map, 1)

\* ------------------------------------------ prepare_subregion_timeseries
\* pd.to_numeric(errors='coerce') on one cell.
to_numeric(cell) == IF cell.kind = "number" THEN cell ELSE NaNCell

RECURSIVE SumODA(_)
SumODA(rows) ==
    IF rows = <<>> THEN 0 ELSE Head(rows).ODA.value + SumODA(Tail(rows))

\* A group's value taken from its first row instead of summed.
GroupedODA_First(rows) == Head(rows).ODA.value

\* groupby([...])['ODA'].sum() for the rows of one (Subregion, Year) key.
GroupedODA(rows) == SumODA(rows)

\* Python's order of the group names the model uses (str.__lt__), as pandas
\* sorts the pivot's columns.
SortedSubregionNames ==
    <<"Central Africa", "East Africa", "Southern Africa", "West Africa">>

Range(s) == {s[i] : i \in 1..Len(s)}

RECURSIVE AscendingYears(_)
AscendingYears(S) ==
    IF S = {} THEN <<>>
    ELSE LET m == SetMin(S) IN <<m>> \o AscendingYears(S \ {m})

\* The columns without the loop that adds the groups that matched nothing.
PivotColumns_PresentOnly(present, declared) ==
    SelectSeq(SortedSubregionNames, LAMBDA s : s \in present)

\* The pivot's columns: the groups that have rows, sorted by name (pivot), then
\* each declared group not among them, in declaration order (lines 128-130).
PivotColumns(present, declared) ==
    SelectSeq(SortedSubregionNames, LAMBDA s : s \in present)
        \o SelectSeq(declared, LAMBDA s : s \notin present)

NoPivot ==
    [status |-> "not_called", index |-> <<>>, columns |-> <<>>,
     cell |-> [y \in {}, s \in {} |-> 0]]

\* The pivot returned: the year index, the columns in order, the cells.  The
\* call raises (line 123) when assign_subregion raises on a row that the
\* dropna of line 122 kept.
prepare_subregion_timeseries(df, map) ==
    LET numeric == [i \in 1..Len(df) |-> [df[i] EXCEPT !.ODA = to_numeric(@)]]
        valid == SelectSeq(numeric, LAMBDA r : r.ODA.kind # "nan")
        tagged == [i \in 1..Len(valid) |->
                      [Country |-> valid[i].Country, Year |-> valid[i].Year,
                       ODA |-> valid[i].ODA,
                       Subregion |-> assign_subregion(valid[i].Country, map)]]
        raised == \E i \in 1..Len(tagged) : tagged[i].Subregion = AttributeError
        df_sub == SelectSeq(tagged, LAMBDA r : r.Subregion # None)
        keys == {<<df_sub[i].Subregion, df_sub[i].Year>> : i \in 1..Len(df_sub)}
        grouped == [k \in keys |->
                      GroupedODA(SelectSeq(df_sub,
                          LAMBDA r : r.Subregion = k[1] /\ r.Year = k[2]))]
        present == {k[1] : k \in keys}
        years == {k[2] : k \in keys}
        declared == [g \in 1..Len(map) |-> map[g].subregion]
        columns == PivotColumns(present, declared)
    IN  IF raised THEN [NoPivot EXCEPT !.status = "raised"]
        ELSE [status |-> "returned",
              index |-> AscendingYears(years),
              columns |-> columns,
              cell |-> [y \in years, s \in Range(columns) |->
                           IF <<s, y>> \in keys THEN grouped[<<s, y>>] ELSE 0]]

\* ------------------------------------------------------ fit_and_forecast
\* series.sort_index(): ascending by the year index (insertion of each
\* observation after the observations whose year is not greater).
RECURSIVE InsertByYear(_, _)
InsertByYear(sorted, obs) ==
    IF sorted = <<>> THEN <<obs>>
    ELSE IF Head(sorted).year <= obs.year
         THEN <<Head(sorted)>> \o InsertByYear(Tail(sorted), obs)
         ELSE <<obs>> \o sorted

RECURSIVE sort_index(_)
sort_index(s) ==
    IF s = <<>> THEN <<>>
    ELSE InsertByYear(sort_index(SubSeq(s, 1, Len(s) - 1)), s[Len(s)])

\* ser.index.freq = "YE-DEC": pandas validates that the year-end dates are
\* consecutive years (an empty index conforms) and raises ValueError otherwise.
ConformsToFreq(ser) ==
    \A i \in 1..(Len(ser) - 1) : ser[i + 1].year = ser[i].year + 1

\* The guard shrinking to half the length instead of a third.
EffectiveEvalYears_HalfLength(n, ev) ==
    IF n < ev + 3 THEN Max(1, Min(ev, n \div 2)) ELSE ev

\* The guard without its floor of one.
EffectiveEvalYears_NoFloor(n, ev) ==
    IF n < ev + 3 THEN Min(ev, n \div 3) ELSE ev

\* The guard on the evaluation window (lines 158-159).
EffectiveEvalYears(n, ev) ==
    IF n < ev + 3 THEN Max(1, Min(ev, n \div 3)) ELSE ev

\* A model's evaluation predictions / forecast over the given years: what the
\* fitted model produced when the fit and forecast succeeded, NaN of the same
\* length from the except branch.
Predict(ok, years) ==
    [i \in 1..Len(years) |-> [year |-> years[i], value |-> IF ok THEN Num ELSE NaN]]

YearsOf(s) == [i \in 1..Len(s) |-> s[i].year]

HasNaN(p) == \E i \in 1..Len(p) : p[i].value = NaN

\* sklearn's mean_absolute_error / mean_squared_error validate their input:
\* ValueError for zero samples and for NaN in either array.
MetricRaises(test, pred) == Len(test) = 0 \/ HasNaN(pred)

\* statsmodels cannot fit either model to an empty series; on any other
\* series the fit may succeed or raise.
FitSucceeds(ok, data) == ok /\ Len(data) > 0

NoFrame ==
    [status |-> "not_called", line |-> 0, eval_years |-> 0,
     train |-> <<>>, test |-> <<>>,
     pred_test_arima |-> <<>>, pred_test_holt |-> <<>>,
     metrics |-> None, forecast |-> <<>>]

\* The forecast DataFrame: one row per forecast year, one value per model.
ForecastDf(forecast_years, arima_fc, hw_fc) ==
    [i \in 1..Len(forecast_years) |->
        [year |-> forecast_years[i],
         ARIMA |-> arima_fc[i].value,
         Holt |-> hw_fc[i].value]]

\* The frame of a call of fit_and_forecast: status "returned" with the
\* returned dict's entries, or status "raised" with the line that raised and
\* the locals bound so far.
fit_and_forecast(s, ev, end_year, ok) ==
    LET ser == sort_index(s)
        w == EffectiveEvalYears(Len(ser), ev)
        train == ILocTo(ser, 0 - w)
        test == ILocFrom(ser, 0 - w)
        arima_pred == Predict(FitSucceeds(ok.arima_train, train), YearsOf(test))
        hw_pred == Predict(FitSucceeds(ok.holt_train, train), YearsOf(test))
        split == [NoFrame EXCEPT !.eval_years = w, !.train = train, !.test = test,
                                 !.pred_test_arima = arima_pred,
                                 !.pred_test_holt = hw_pred]
    IN  IF ~ConformsToFreq(ser)
        THEN [NoFrame EXCEPT !.status = "raised", !.line = 155]
        ELSE IF MetricRaises(test, arima_pred)
        THEN [split EXCEPT !.status = "raised", !.line = 185]
        ELSE IF MetricRaises(test, hw_pred)
        THEN [split EXCEPT !.status = "raised", !.line = 187]
        ELSE
        LET last_year == SetMax({ser[i].year : i \in 1..Len(ser)})
            forecast_years == PyRange(last_year + 1, end_year + 1)
            arima_fc == Predict(FitSucceeds(ok.arima_full, ser), forecast_years)
            hw_fc == Predict(FitSucceeds(ok.holt_full, ser), forecast_years)
        IN  [split EXCEPT !.status = "returned",
                          !.metrics = [ARIMA_MAE |-> Num, ARIMA_RMSE |-> Num,
                                       HOLT_MAE |-> Num, HOLT_RMSE |-> Num],
                          !.forecast = ForecastDf(forecast_years, arima_fc, hw_fc)]

\* -------------------------------------------------- inputs of SpecFit
YearUniverse == BaseYear..(BaseYear + MaxLen - 1)

Reverse(s) == [i \in 1..Len(s) |-> s[Len(s) + 1 - i]]
RotateLeft(s) == IF s = <<>> THEN s ELSE Tail(s) \o <<Head(s)>>

Orders == {"asc", "desc", "rot"}
Arrange(s, order) ==
    CASE order = "asc" -> s
      [] order = "desc" -> Reverse(s)
      [] order = "rot" -> RotateLeft(s)

ValuePatterns == {"zero", "ramp"}
ValueAt(pattern, y) == IF pattern = "zero" THEN 0 ELSE 10 * (y - BaseYear + 1)

\* Series over any subset of the universe's years (gaps included), given in
\* ascending, descending or rotated order.
InputSeries ==
    { [i \in 1..Len(ys) |-> [year |-> ys[i], value |-> ValueAt(p, ys[i])]] :
        ys \in { Arrange(AscendingYears(S), o) : S \in SUBSET YearUniverse, o \in Orders },
        p \in ValuePatterns }

HorizonYears == (BaseYear + MaxLen - 2)..(BaseYear + MaxLen - 1 + MaxHorizon)

FitOutcomes ==
    [arima_train : BOOLEAN, holt_train : BOOLEAN,
     arima_full : BOOLEAN, holt_full : BOOLEAN]

AllFitsOk ==
    [arima_train |-> TRUE, holt_train |-> TRUE, arima_full |-> TRUE, holt_full |-> TRUE]

\* ------------------------------------------ inputs of the other operations
SeqsUpTo(S, n) == UNION {[1..k -> S] : k \in 0..n}

IsInjective(s) == \A i, j \in 1..Len(s) : s[i] = s[j] => i = j

\* Country values: every string of up to MaxNameLen characters, NaN, and a
\* number.
Names == SeqsUpTo(Chars, MaxNameLen) \cup {NaNName, NumberName(5)}

\* Aliases as a map declares them: "a", "B." and " a,b".
AliasPool == {<<"a">>, <<"B", ".">>, <<" ", "a", ",", "b">>}

MemberLists(n) == {s \in SeqsUpTo(AliasPool, n) : IsInjective(s)}

\* Two groups, declared West Africa before Central Africa as in SUBREGION_MAP.
MapsOf(lists) ==
    { <<[subregion |-> "West Africa", members |-> w],
        [subregion |-> "Central Africa", members |-> c]>> : w \in lists, c \in lists }

GroupMaps == MapsOf(MemberLists(MaxMembers))

\* Long tables: up to MaxRecords rows; a country that is "a", "B", "ab",
\* missing or a number; one of two years; a value that is a number, missing
\* or text.
LongTables ==
    SeqsUpTo([Country : {<<"a">>, <<"B">>, <<"a", "b">>, NaNName, NumberName(5)},
              Year : {BaseYear, BaseYear + 1},
              ODA : {Number(3), Number(5), NaNCell, Text(<<"a">>)}], MaxRecords)

AggMaps == MapsOf(MemberLists(1))

\* Readings with skiprows=4 of a World Bank file: the identity columns it has,
\* one more column ("Indicator Name" or "ODA"), and n year columns, the first
\* of them headed by the base year or by the superscript two; each row holds a
\* country that is the text "a" or a number, the text "a" in the other columns
\* that are not years, one of a number, a missing value or text in the first
\* year column, and the number 3 in the others.
WideColumns(ids, extra, first, n) ==
    ids \o <<extra>>
        \o [i \in 1..n |-> IF i = 1 THEN first ELSE ToString(BaseYear + i - 1)]

WideRow(columns, who, value) ==
    [i \in 1..Len(columns) |->
        IF columns[i] = "Country Name" THEN who
        ELSE IF ~isdigit(columns[i]) THEN Text(<<"a">>)
        ELSE IF \A j \in 1..(i - 1) : ~isdigit(columns[j]) THEN value
        ELSE Number(3)]

CellKinds == {Number(BaseYear), NaNCell, Text(<<"a">>)}

WideHeaders ==
    { WideColumns(ids, extra, first, n) :
        ids \in {<<>>, <<"Country Name">>, <<"Country Code">>,
                 <<"Country Name", "Country Code">>},
        extra \in {"Indicator Name", "ODA"},
        first \in {ToString(BaseYear), SuperscriptTwo},
        n \in {0} \cup ((MinYearCols - 1)..(MinYearCols + MaxExtraCols)) }

WideTables ==
    UNION { { Table(columns, rows) :
                rows \in SeqsUpTo({WideRow(columns, who, v) :
                                      who \in {Text(<<"a">>), Number(5)},
                                      v \in CellKinds},
                                  MaxCsvRows) } :
            columns \in WideHeaders }

\* Plain readings of a long-format file: up to MaxCsvCols distinct headers in
\* any order; each row holds one kind of cell under the headers that read as
\* the year, one kind under those that read as the value, and the text "a"
\* elsewhere.
PlainHeaders ==
    {"Country Name", "COUNTRY", "Year", "YEAR", "year_id", "ODA",
     "Official value", "Region"}

PlainRow(columns, year, value) ==
    [i \in 1..Len(columns) |->
        IF LowerOfHeader(columns[i]) = "year" THEN year
        ELSE IF \E k \in ValueKeywords : Contains(k, LowerOfHeader(columns[i])) THEN value
        ELSE Text(<<"a">>)]

PlainTables ==
    UNION { { Table(columns, rows) :
                rows \in SeqsUpTo({PlainRow(columns, y, v) : y \in CellKinds, v \in CellKinds},
                                  MaxCsvRows) } :
            columns \in {s \in SeqsUpTo(PlainHeaders, MaxCsvCols) : IsInjective(s)} }

\* What the other reading of such files is: an error (too few lines, ragged
\* metadata lines), a table whose header is a line of metadata or of data, or
\* a well-formed long table.
HeaderFromData == Table(<<"a", ToString(BaseYear)>>, <<>>)
HeaderFromMetadata == Table(<<"Data Source">>, <<>>)
GoodLong ==
    Table(<<"Country Name", "Year", "ODA">>,
          <<PlainRow(<<"Country Name", "Year", "ODA">>, Number(BaseYear), Number(BaseYear))>>)

CsvFiles ==
    {[skip4 |-> s, plain |-> p] :
        s \in WideTables, p \in {ReadError, HeaderFromMetadata, GoodLong}}
    \cup {[skip4 |-> s, plain |-> p] :
        s \in {ReadError, HeaderFromData}, p \in PlainTables}

NoFile == [skip4 |-> ReadError, plain |-> ReadError]
NotBuilt == [status |-> "not_returned", subregion_wide |-> NoPivot, models |-> <<>>]

\* Values of the variables an operation does not use.
IdleLoad == csv_path = NoFile /\ loaded = NotLoaded
IdleBuild == sub_i = 0 /\ models = <<>> /\ built = NotBuilt
IdleAssign == country_name = NaNName /\ assigned = None
IdleAgg == df_long = <<>> /\ pivot = NoPivot
IdleFit ==
    /\ series = <<>> /\ eval_years = 0 /\ forecast_end_year = 0
    /\ fit_ok = AllFitsOk /\ engine = NoFrame

\* ---------------------------------------------------------- SpecAssign
InitAssign ==
    /\ pc = "call"
    /\ country_name \in Names
    /\ subregion_map \in GroupMaps
    /\ assigned = None
    /\ IdleAgg /\ IdleFit /\ IdleLoad /\ IdleBuild

AssignCall ==
    /\ pc = "call"
    /\ assigned' = assign_subregion(country_name, subregion_map)
    /\ pc' = "done"
    /\ UNCHANGED <<country_name, subregion_map, aggVars, fitVars, loadVars, buildVars>>

NextAssign == AssignCall

SpecAssign == InitAssign /\ [][NextAssign]_vars

\* ------------------------------------------------------------- SpecAgg
InitAgg ==
    /\ pc = "call"
    /\ df_long \in LongTables
    /\ subregion_map \in AggMaps
    /\ pivot = NoPivot
    /\ IdleAssign /\ IdleFit /\ IdleLoad /\ IdleBuild

PrepareCall ==
    /\ pc = "call"
    /\ pivot' = prepare_subregion_timeseries(df_long, subregion_map)
    /\ pc' = "done"
    /\ UNCHANGED <<df_long, subregion_map, assignVars, fitVars, loadVars, buildVars>>

NextAgg == PrepareCall

SpecAgg == InitAgg /\ [][NextAgg]_vars

\* ------------------------------------------------------------- SpecFit
InitFit ==
    /\ pc = "call"
    /\ series \in InputSeries
    /\ eval_years \in 1..MaxEval
    /\ forecast_end_year \in HorizonYears
    /\ fit_ok = AllFitsOk
    /\ engine = NoFrame
    /\ subregion_map = <<>>
    /\ IdleAssign /\ IdleAgg /\ IdleLoad /\ IdleBuild

FitCall ==
    /\ pc = "call"
    /\ \E ok \in FitOutcomes :
        /\ fit_ok' = ok
        /\ engine' = fit_and_forecast(series, eval_years, forecast_end_year, ok)
    /\ pc' = "done"
    /\ UNCHANGED <<series, eval_years, forecast_end_year, subregion_map,
                   assignVars, aggVars, loadVars, buildVars>>

NextFit == FitCall

SpecFit == InitFit /\ [][NextFit]_vars

\* ------------------------------------------------------------ SpecLoad
InitLoad ==
    /\ pc = "call"
    /\ csv_path \in CsvFiles
    /\ loaded = NotLoaded
    /\ subregion_map = <<>>
    /\ IdleAssign /\ IdleAgg /\ IdleFit /\ IdleBuild

LoadCall ==
    /\ pc = "call"
    /\ loaded' = load_worldbank_style(csv_path)
    /\ pc' = "done"
    /\ UNCHANGED <<csv_path, subregion_map, assignVars, aggVars, fitVars, buildVars>>

NextLoad == LoadCall

SpecLoad == InitLoad /\ [][NextLoad]_vars

\* ----------------------------------------------------------- SpecBuild
\* build_all_subregion_models, one action per call it makes.
BuildFiles ==
    {[skip4 |-> s, plain |-> p] : s \in WideTables, p \in {ReadError, GoodLong}}

BuildMaps == MapsOf({<<>>, <<<<"a">>>>})

InitBuild ==
    /\ pc = "load"
    /\ csv_path \in BuildFiles
    /\ subregion_map \in BuildMaps
    /\ eval_years \in {1, MaxEval}
    /\ forecast_end_year = BaseYear + MinYearCols + MaxHorizon
    /\ loaded = NotLoaded
    /\ df_long = <<>> /\ pivot = NoPivot
    /\ series = <<>> /\ fit_ok = AllFitsOk /\ engine = NoFrame
    /\ IdleAssign /\ IdleBuild

\* Line 252, and lines 254-262, which rename nothing in a table
\* load_worldbank_style returns.  An exception of the loader propagates.
BuildLoad ==
    /\ pc = "load"
    /\ loaded' = load_worldbank_style(csv_path)
    /\ IF loaded'.status = "returned"
       THEN pc' = "prepare" /\ df_long' = loaded'.rows
       ELSE pc' = "raised_load" /\ UNCHANGED df_long
    /\ UNCHANGED <<csv_path, subregion_map, assignVars, pivot, fitVars, buildVars>>

\* Line 264.  df['Country'] raises KeyError when the table has no Country
\* column (a wide file without "Country Name"); an exception of
\* prepare_subregion_timeseries propagates.
BuildPrepare ==
    /\ pc = "prepare"
    /\ IF "Country" \in loaded.columns
       THEN /\ pivot' = prepare_subregion_timeseries(df_long, subregion_map)
            /\ models' = <<>>
            /\ IF pivot'.status = "returned"
               THEN sub_i' = 1 /\ pc' = "fit"
               ELSE pc' = "raised_prepare" /\ UNCHANGED sub_i
       ELSE pc' = "raised_prepare" /\ UNCHANGED <<pivot, models, sub_i>>
    /\ UNCHANGED <<csv_path, loaded, subregion_map, assignVars, df_long, fitVars, built>>

\* s = subregion_wide[sub]
ColumnSeries(wide, sub) ==
    [i \in 1..Len(wide.index) |->
        [year |-> wide.index[i], value |-> wide.cell[wide.index[i], sub]]]

\* Lines 266-268, one iteration whose fit_and_forecast call returns.
BuildFitReturns ==
    /\ pc = "fit" /\ sub_i <= Len(pivot.columns)
    /\ \E ok \in FitOutcomes :
        LET sub == pivot.columns[sub_i]
            frame == fit_and_forecast(ColumnSeries(pivot, sub), eval_years,
                                      forecast_end_year, ok)
        IN  /\ frame.status = "returned"
            /\ series' = ColumnSeries(pivot, sub)
            /\ fit_ok' = ok
            /\ engine' = frame
            /\ models' = (sub :> frame) @@ models
    /\ sub_i' = sub_i + 1
    /\ UNCHANGED <<pc, csv_path, loaded, subregion_map, assignVars, aggVars,
                   eval_years, forecast_end_year, built>>

\* Lines 266-268, one iteration whose fit_and_forecast call raises: nothing
\* catches the exception, the function ends without returning.
BuildFitRaises ==
    /\ pc = "fit" /\ sub_i <= Len(pivot.columns)
    /\ \E ok \in FitOutcomes :
        LET sub == pivot.columns[sub_i]
            frame == fit_and_forecast(ColumnSeries(pivot, sub), eval_years,
                                      forecast_end_year, ok)
        IN  /\ frame.status = "raised"
            /\ series' = ColumnSeries(pivot, sub)
            /\ fit_ok' = ok
            /\ engine' = frame
    /\ pc' = "raised_fit"
    /\ UNCHANGED <<csv_path, loaded, subregion_map, assignVars, aggVars,
                   eval_years, forecast_end_year, buildVars>>

\* Line 269.
BuildReturn ==
    /\ pc = "fit" /\ sub_i > Len(pivot.columns)
    /\ built' = [status |-> "returned", subregion_wide |-> pivot, models |-> models]
    /\ pc' = "done"
    /\ UNCHANGED <<csv_path, loaded, subregion_map, assignVars, aggVars, fitVars,
                   sub_i, models>>

NextBuild ==
    \/ BuildLoad
    \/ BuildPrepare
    \/ BuildFitReturns
    \/ BuildFitRaises
    \/ BuildReturn

SpecBuild == InitBuild /\ [][NextBuild]_vars

\* --------------------------------- claims on SpecAssign and SpecAgg
\* The matching rule as the specification words it, written without the
\* code's helpers: trim, lowercase, drop periods and commas; equal, or one a
\* prefix of the other.
Trimmed(s) ==
    LET solid == {i \in 1..Len(s) : s[i] # " "}
    IN  IF solid = {} THEN <<>> ELSE SubSeq(s, SetMin(solid), SetMax(solid))

NormalForm(s) ==
    SelectSeq([i \in 1..Len(Trimmed(s)) |-> LowerChar(Trimmed(s)[i])],
              LAMBDA c : c \notin {".", ","})

IsPrefixOf(p, s) == \E k \in 0..Len(s) : SubSeq(s, 1, k) = p

AliasMatches(name, alias) ==
    LET n == NormalForm(name)
        a == NormalForm(alias)
    IN  n = a \/ IsPrefixOf(n, a) \/ IsPrefixOf(a, n)

MatchingGroups(name, map) ==
    IF name = NaNName THEN {}
    ELSE {g \in 1..Len(map) :
            \E i \in 1..Len(map[g].members) : AliasMatches(name, map[g].members[i])}

FirstMatchingGroup(name, map) ==
    IF MatchingGroups(name, map) = {} THEN None
    ELSE map[SetMin(MatchingGroups(name, map))].subregion

\* C3: assign_subregion returns the first group, in declaration order, that
\* has an alias whose normalized form equals the normalized name or is a
\* prefix of it or has it as a prefix, and None exactly when no alias of any
\* group matches; so a name is assigned to at most one group.  (A name is a
\* string or missing; on a number the call raises and assigns nothing.)
C3_FirstMatchingGroupWins ==
    (pc = "done" /\ ~IsNumberName(country_name)) =>
        /\ assigned = FirstMatchingGroup(country_name, subregion_map)
        /\ (assigned = None <=> MatchingGroups(country_name, subregion_map) = {})
        /\ Cardinality({g \in 1..Len(subregion_map) :
                            subregion_map[g].subregion = assigned}) <= 1

\* C3 witness: a name that equals no alias but prefix-matches aliases of both
\* groups, assigned to the first declared group.
C3_Witness ==
    /\ pc = "done"
    /\ country_name # NaNName /\ ~IsNumberName(country_name)
    /\ Cardinality(MatchingGroups(country_name, subregion_map)) = 2
    /\ \A g \in 1..Len(subregion_map) : \A i \in 1..Len(subregion_map[g].members) :
            NormalForm(subregion_map[g].members[i]) # NormalForm(country_name)
    /\ NormalForm(country_name) # <<>>
    /\ assigned = subregion_map[1].subregion

RECURSIVE TotalODA(_)
TotalODA(rows) ==
    IF rows = <<>> THEN 0 ELSE rows[1].ODA.value + TotalODA(SubSeq(rows, 2, Len(rows)))

RECURSIVE SumSeq(_)
SumSeq(s) == IF s = <<>> THEN 0 ELSE s[1] + SumSeq(SubSeq(s, 2, Len(s)))

\* Every cell of a pivot, row by row.
CellsOf(p) ==
    [k \in 1..(Len(p.index) * Len(p.columns)) |->
        p.cell[p.index[((k - 1) \div Len(p.columns)) + 1],
               p.columns[((k - 1) % Len(p.columns)) + 1]]]

NumericRows == SelectSeq(df_long, LAMBDA r : r.ODA.kind = "number")

\* The rows with a numeric value whose country's first matching group is s.
RowsOfGroup(s) ==
    SelectSeq(NumericRows, LAMBDA r : FirstMatchingGroup(r.Country, subregion_map) = s)

UnmatchedRows == RowsOfGroup(None)

DeclaredGroups == {subregion_map[g].subregion : g \in 1..Len(subregion_map)}

MatchedYears == {r.Year : r \in UNION {Range(RowsOfGroup(s)) : s \in DeclaredGroups}}

\* C4: conservation.  The sum of all cells of the pivot plus the sum of the
\* values of the rows whose country matches no group equals the sum of all
\* numeric input values, and each cell holds exactly the values of the rows
\* of its year whose first matching group is its column.  (Stated of the
\* calls that return a pivot.)
C4_TotalIsConserved ==
    (pc = "done" /\ pivot.status = "returned") =>
        /\ SumSeq(CellsOf(pivot)) + TotalODA(UnmatchedRows) = TotalODA(NumericRows)
        /\ \A y \in Range(pivot.index) : \A s \in Range(pivot.columns) :
              pivot.cell[y, s] =
                  TotalODA(SelectSeq(RowsOfGroup(s), LAMBDA r : r.Year = y))

\* C4 witness: a table with a numeric row of an unmatched country and a
\* numeric row of a country that matches aliases of both groups.
C4_Witness ==
    /\ pc = "done" /\ pivot.status = "returned"
    /\ UnmatchedRows # <<>>
    /\ \E i \in 1..Len(NumericRows) :
          Cardinality(MatchingGroups(NumericRows[i].Country, subregion_map)) = 2
    /\ SumSeq(CellsOf(pivot)) > 0

\* C5: the pivot has one column for every declared group, also for a group
\* with no matched row; its index is the set of years of the matched rows,
\* ascending; a cell with no matched row is 0, so a group that matched nothing
\* is zero in every year of the index.  (Matched rows: the rows of df_sub,
\* which hold a numeric value and a country that a group matches.)
C5_EveryGroupHasAColumn ==
    (pc = "done" /\ pivot.status = "returned") =>
        /\ Range(pivot.columns) = DeclaredGroups
        /\ Len(pivot.columns) = Len(subregion_map)
        /\ Range(pivot.index) = MatchedYears
        /\ \A i \in 1..(Len(pivot.index) - 1) : pivot.index[i] < pivot.index[i + 1]
        /\ \A s \in DeclaredGroups : \A y \in MatchedYears :
              (\A r \in Range(RowsOfGroup(s)) : r.Year # y) => pivot.cell[y, s] = 0
        /\ \A s \in DeclaredGroups :
              RowsOfGroup(s) = <<>> => \A y \in MatchedYears : pivot.cell[y, s] = 0

\* C5 witness: rows of two years given latest first, all of one group, while
\* the other declared group matches nothing and is a column of zeros.
C5_Witness ==
    /\ pc = "done" /\ pivot.status = "returned"
    /\ Len(pivot.index) = 2
    /\ Len(df_long) = 2 /\ df_long[1].Year > df_long[2].Year
    /\ \E s \in DeclaredGroups :
          /\ RowsOfGroup(s) = <<>>
          /\ s \in Range(pivot.columns)
          /\ \A y \in Range(pivot.index) : pivot.cell[y, s] = 0

\* ---------------------------------- claims on SpecLoad and SpecBuild
\* The two shapes as the specification words them, read off the file.
HeadersOf(tbl) == Range(tbl.columns)

\* The number of column headers that parse as integers.
IntHeaderCount(tbl) ==
    Cardinality({i \in 1..Len(tbl.columns) : ParsesAsInt(tbl.columns[i])})

\* A wide table that nothing prevents from being melted: it can be read, at
\* least 10 headers parse as integers, no other header is made of digits, and
\* no column is already named as the value column.
WideWellFormed ==
    /\ csv_path.skip4.ok
    /\ IntHeaderCount(csv_path.skip4) >= 10
    /\ \A c \in HeadersOf(csv_path.skip4) : isdigit(c) => ParsesAsInt(c)
    /\ "ODA" \notin HeadersOf(csv_path.skip4)

LongResolvable ==
    /\ csv_path.plain.ok
    /\ HeadersOf(csv_path.plain) \cap {"Country Name", "Country Code", "COUNTRY"} # {}
    /\ HeadersOf(csv_path.plain) \cap {"Year", "YEAR"} # {}
    /\ HeadersOf(csv_path.plain) \cap {"ODA", "Official value", "Amount"} # {}

\* ParserError and EmptyDataError of pandas are subclasses of ValueError.
ValueErrors == {"ValueError", "ParserError"}

\* C8: the wide shape is tried first and accepted only when at least 10
\* column headers parse as integers; when the wide attempt fails or finds
\* fewer year columns, the long shape is tried and accepted only when a
\* country column, a column named "year" (case-insensitive) and a
\* value-keyword column are resolvable; when neither shape is detected the
\* call raises ValueError and returns no records; every record returned has
\* a non-missing value and an integer Year.
C8_ShapeDetectionAndCleanRecords ==
    pc = "done" =>
        /\ WideWellFormed => loaded.shape = "wide"
        /\ loaded.shape = "wide" =>
              csv_path.skip4.ok /\ IntHeaderCount(csv_path.skip4) >= 10
        /\ loaded.shape = "long" => LongResolvable
        /\ (loaded.shape # "wide" /\ ~LongResolvable) =>
              /\ loaded.status = "raised"
              /\ loaded.error \in ValueErrors
              /\ loaded.rows = <<>>
        /\ loaded.status = "returned" =>
              \A i \in 1..Len(loaded.rows) :
                  /\ loaded.rows[i].ODA.kind # "nan"
                  /\ loaded.rows[i].Year \in Int

\* C2: a raised exception of the fit_and_forecast call of one group does not
\* prevent the other groups from producing results: once the loop over the
\* pivot's columns has ended, however it ended, the mapping returned has an
\* entry for every column of the pivot.
C2_EveryColumnHasAnEntry ==
    pc \in {"done", "raised_fit"} =>
        \A sub \in Range(pivot.columns) : sub \in DOMAIN built.models

\* ------------------------------------------------ claims on SpecFit
SplitReached == pc = "done" /\ engine.status \in {"returned", "raised"} /\ engine.line # 155

InputYears == {series[i].year : i \in 1..Len(series)}

IsYearSorted(s) == \A i \in 1..(Len(s) - 1) : s[i].year < s[i + 1].year

AllValues(p, v) == \A i \in 1..Len(p) : p[i].value = v

ArimaTrainFailed == ~FitSucceeds(fit_ok.arima_train, engine.train)
HoltTrainFailed == ~FitSucceeds(fit_ok.holt_train, engine.train)
ArimaFullFailed == ~FitSucceeds(fit_ok.arima_full, series)
HoltFullFailed == ~FitSucceeds(fit_ok.holt_full, series)

\* C1: whenever the ARIMA or the Holt fit/forecast fails, on the train-only
\* pass or on the full-series pass, the call still returns a complete result:
\* the failed model's predictions/forecast are NaN of the same length, its MAE
\* and RMSE are NaN, and the other model's predictions, metrics and forecast
\* are delivered.  (Stated for a call that reached the fits with a non-empty
\* training set and a non-empty evaluation set.)
C1_ModelFailureDoesNotAbort ==
    (SplitReached /\ Len(engine.train) > 0 /\ Len(engine.test) > 0
        /\ (ArimaTrainFailed \/ HoltTrainFailed \/ ArimaFullFailed \/ HoltFullFailed))
    => /\ engine.status = "returned"
       /\ Len(engine.pred_test_arima) = Len(engine.test)
       /\ Len(engine.pred_test_holt) = Len(engine.test)
       /\ IF ArimaTrainFailed
          THEN /\ AllValues(engine.pred_test_arima, NaN)
               /\ engine.metrics.ARIMA_MAE = NaN /\ engine.metrics.ARIMA_RMSE = NaN
          ELSE /\ AllValues(engine.pred_test_arima, Num)
               /\ engine.metrics.ARIMA_MAE = Num /\ engine.metrics.ARIMA_RMSE = Num
       /\ IF HoltTrainFailed
          THEN /\ AllValues(engine.pred_test_holt, NaN)
               /\ engine.metrics.HOLT_MAE = NaN /\ engine.metrics.HOLT_RMSE = NaN
          ELSE /\ AllValues(engine.pred_test_holt, Num)
               /\ engine.metrics.HOLT_MAE = Num /\ engine.metrics.HOLT_RMSE = Num
       /\ \A i \in 1..Len(engine.forecast) :
            /\ engine.forecast[i].ARIMA = IF ArimaFullFailed THEN NaN ELSE Num
            /\ engine.forecast[i].Holt = IF HoltFullFailed THEN NaN ELSE Num

\* C6: the split partitions the year-sorted series by position: train followed
\* by test is the input sorted ascending by year, test is its last w
\* observations (w the effective window; everything there is when the series
\* is empty), train the observations before them, and the two lengths add up
\* to the length of the input.
C6_SplitPartitionsSortedSeries ==
    SplitReached =>
        LET whole == engine.train \o engine.test
            w == engine.eval_years
        IN  /\ IsYearSorted(whole)
            /\ {whole[i] : i \in 1..Len(whole)} = {series[i] : i \in 1..Len(series)}
            /\ Len(engine.train) + Len(engine.test) = Len(series)
            /\ Len(engine.test) = Min(w, Len(series))
            /\ (Len(series) > 0 => Len(engine.test) = w)
            /\ \A i \in 1..Len(engine.test) :
                    engine.test[i] = whole[Len(series) - Len(engine.test) + i]
            /\ \A i \in 1..Len(engine.train) : engine.train[i] = whole[i]

\* C6 witness: a series given out of year order, split into a training set and
\* an evaluation set of two or more observations each, and returned.
C6_Witness ==
    /\ pc = "done" /\ engine.status = "returned"
    /\ ~IsYearSorted(series)
    /\ Len(engine.train) >= 2 /\ Len(engine.test) >= 2

\* C7: the index of the returned forecast table is the contiguous range
\* lastObservedYear+1 .. forecast_end_year, ascending, one row per year with a
\* value for each model; empty when forecast_end_year <= lastObservedYear.
\* lastObservedYear is the maximum year of the input, whatever its order.
C7_ForecastIndexIsContiguousRange ==
    (pc = "done" /\ engine.status = "returned") =>
        LET last == SetMax(InputYears)
            fc == engine.forecast
        IN  /\ Len(fc) = Max(0, forecast_end_year - last)
            /\ (forecast_end_year <= last => fc = <<>>)
            /\ \A i \in 1..Len(fc) :
                    /\ fc[i].year = last + i
                    /\ fc[i].ARIMA \in {Num, NaN}
                    /\ fc[i].Holt \in {Num, NaN}
            /\ (fc # <<>> => fc[Len(fc)].year = forecast_end_year)

\* C7 witness: a series given in descending year order whose returned forecast
\* covers two years.
C7_Witness ==
    /\ pc = "done" /\ engine.status = "returned"
    /\ Len(series) >= 2 /\ series[1].year > series[Len(series)].year
    /\ Len(engine.forecast) = 2

\* C9: with fewer than eval_years + 3 observations the effective window is
\* max(1, floor(length / 3)), otherwise the requested eval_years; the guard
\* itself raises nothing; and the effective window is the length of the
\* evaluation set of the returned result.
C9_ShrinkGuard ==
    SplitReached =>
        /\ engine.eval_years =
              IF Len(series) < eval_years + 3
              THEN Max(1, Len(series) \div 3)
              ELSE eval_years
        /\ engine.line \notin {158, 159}
        /\ (engine.status = "returned" => Len(engine.test) = engine.eval_years)

\* C9 witness: the scenario of the specification, a series of length 3 with
\* eval_years requested as 5, returned with an effective window of 1.
C9_Witness ==
    /\ pc = "done" /\ engine.status = "returned"
    /\ Len(series) = 3 /\ eval_years = 5
    /\ engine.eval_years = 1 /\ Len(engine.test) = 1

\* C10 as claimed: for every non-empty series and every requested window, both
\* the training set and the evaluation set are non-empty after the split.
C10_BothPartitionsNonEmpty ==
    (SplitReached /\ Len(series) >= 1) =>
        (Len(engine.train) >= 1 /\ Len(engine.test) >= 1)

\* C10 amended: for every series of at least two observations and every
\* requested window, both the training set and the evaluation set are
\* non-empty after the split.
C10_BothPartitionsNonEmptyFromTwo ==
    (SplitReached /\ Len(series) >= 2) =>
        (Len(engine.train) >= 1 /\ Len(engine.test) >= 1)

\* C10 witness: a two-observation series with a requested window of five is
\* split into one training and one evaluation observation.
C10_Witness ==
    /\ SplitReached
    /\ Len(series) = 2 /\ eval_years = 5
    /\ Len(engine.train) = 1 /\ Len(engine.test) = 1

====
